---- MODULE Spec2Model ----
(***************************************************************************)
(* synctui-resolver: the scanner (scan.rs), the data model (model.rs),     *)
(* the move/archive engine (ops.rs) and the interaction controller         *)
(* (tui.rs) as one state machine over a small filesystem.                  *)
(***************************************************************************)
EXTENDS Integers, Sequences, FiniteSets, TLC

\* ---------------------------------------------------------------- bounds
\* conflict variants a base name can have in the initial tree
MaxConf == 2
\* modification times are drawn from 1..MaxTime
MaxTime == 2
\* the millisecond clock read by unique_suffix_millis runs over 1..MaxStamp
MaxStamp == 1
\* interferences of the environment in one session: a file vanishing or
\* appearing behind the session's back, a stat call, a move or the directory
\* walk of a rescan that fails
MaxExt == 1

\* ------------------------------------------------------- Option<T> values
None == <<>>
Some(x) == <<x>>
IsSome(o) == o # <<>>
Unwrap(o) == o[1]

\* ------------------------------------------------------------------ paths
\* A path below the scan root: its directory components and a file name.
\* A file name is <base>[.sync-conflict-<conf>][.<millis>]*  (conf = 0: no
\* conflict marker; stamps: the suffixes appended by unique_name).
ArchiveDirName == ".stconflict-archive"
UserDir == <<"vis">>
BaseNames == {"a", "b"}
\* a base name that starts with '.', and the roots a session is started on:
\* the canonical path of a directory, with or without a hidden component
HiddenName == ".h"
VisibleRoot == <<"srv">>
HiddenRoot == <<".cfg">>
Roots == {VisibleRoot, HiddenRoot}

MkName(b, k, ts) == [base |-> b, conf |-> k, stamps |-> ts]
MkPath(d, n) == [dir |-> d, name |-> n]
UserPath(b, k) == MkPath(UserDir, MkName(b, k, <<>>))
UserPaths == {UserPath(b, k) : b \in BaseNames, k \in 0..MaxConf}

\* byte order of the first characters: '.' < 'a' < 'b' < 'v'
CompRank(c) ==
    CASE c = HiddenName -> 1
      [] c = ArchiveDirName -> 2
      [] c = "a" -> 3
      [] c = "b" -> 4
      [] c = "vis" -> 5

RECURSIVE DirKey(_)
DirKey(d) == IF d = <<>> THEN <<>> ELSE <<CompRank(Head(d))>> \o DirKey(Tail(d))

\* ".<digits>" sorts before ".sync-conflict-": a stamp token is below every
\* conflict token; the key of a name is its base followed by its tokens.
NameKey(n) ==
    <<CompRank(n.base)>>
      \o (IF n.conf > 0 THEN <<MaxStamp + n.conf>> ELSE <<>>)
      \o n.stamps

PathKey(p) == DirKey(p.dir) \o NameKey(p.name)

RECURSIVE SeqLess(_, _)
SeqLess(s, t) ==
    IF t = <<>> THEN FALSE
    ELSE IF s = <<>> THEN TRUE
    ELSE IF Head(s) # Head(t) THEN Head(s) < Head(t)
    ELSE SeqLess(Tail(s), Tail(t))

\* Ord for PathBuf: component-wise comparison
PathLess(p, q) == SeqLess(PathKey(p), PathKey(q))

MinPath(S) == CHOOSE p \in S : \A q \in S : q = p \/ PathLess(p, q)

RECURSIVE SortPaths(_)
SortPaths(S) ==
    IF S = {} THEN <<>>
    ELSE LET m == MinPath(S) IN <<m>> \o SortPaths(S \ {m})

\* Path::parent / Path::file_name / Path::join on the model's paths
Parent(p) == p.dir
FileName(p) == p.name

\* ops.rs archive_dir_for: <parent of base>/.stconflict-archive
archive_dir_for(base_path) == Append(Parent(base_path), ArchiveDirName)

\* a variant of unique_name that builds the name from the text before the
\* conflict marker
unique_name_of_base(name, millis) ==
    [name EXCEPT !.conf = 0, !.stamps = Append(@, millis)]

\* ops.rs unique_name: "<base>.<millis>"
unique_name(name, millis) == [name EXCEPT !.stamps = Append(@, millis)]

\* scan.rs is_conflict_name: the text before the first ".sync-conflict-"
is_conflict_name(file_name) ==
    IF file_name.conf > 0 THEN Some(MkName(file_name.base, 0, <<>>)) ELSE None

\* starts_with('.') on a component or a file name
StartsWithDot(c) == c \in {ArchiveDirName, HiddenName, ".cfg"}

\* scan.rs:39-51: the file name is hidden, or any component of the path the
\* walk yields is: the components of the root, then those below it
HiddenPath(root, p) ==
    \/ StartsWithDot(p.name.base)
    \/ \E i \in 1..Len(root) : StartsWithDot(root[i])
    \/ \E i \in 1..Len(p.dir) : StartsWithDot(p.dir[i])

\* ------------------------------------------------------------- filesystem
\* fs maps every regular file that exists to its content and its mtime.
\* A content is the path the file was first seen at and how it got there.
Content(p, how) == [at |-> p, how |-> how]
File(c, m) == [c |-> c, m |-> m]
Exists(fsys, p) == p \in DOMAIN fsys
Put(fsys, p, f) == [q \in DOMAIN fsys \cup {p} |-> IF q = p THEN f ELSE fsys[q]]
Remove(fsys, p) == [q \in DOMAIN fsys \ {p} |-> fsys[q]]

\* ---------------------------------------------------------------- scanner
\* all orders in which a walk can enumerate the members of S
RECURSIVE Orders(_)
Orders(S) ==
    IF S = {} THEN {<<>>}
    ELSE UNION {{<<x>> \o o : o \in Orders(S \ {x})} : x \in S}

\* scan.rs:38-55: the files the walk keeps, and the base path of each
Walked(root, fsys, hidden) ==
    {p \in DOMAIN fsys :
        (hidden \/ ~HiddenPath(root, p)) /\ IsSome(is_conflict_name(FileName(p)))}
BaseOf(p) == MkPath(Parent(p), Unwrap(is_conflict_name(FileName(p))))

Label(text, n) == [text |-> text, n |-> n]

\* scan.rs stat_candidate; failed: the paths whose fs::metadata call errs
stat_candidate(fsys, failed, path, is_original, label) ==
    LET meta == Exists(fsys, path) /\ path \notin failed IN
    [path |-> path,
     exists |-> meta,
     is_original |-> is_original,
     modified |-> IF meta THEN Some(fsys[path].m) ELSE None,
     label |-> label]

\* a variant of MakeGroup that keeps the conflicts in enumeration order
MakeGroupInWalkOrder(fsys, failed, base_path, conflict_paths) ==
    [base_path |-> base_path,
     candidates |-> <<stat_candidate(fsys, failed, base_path, TRUE,
                                     Label("Original", 0))>>
                    \o [i \in 1..Len(conflict_paths) |->
                           stat_candidate(fsys, failed, conflict_paths[i], FALSE,
                                          Label("Conflict", i))],
     chosen |-> None]

\* scan.rs:66-90: one group from the conflict paths in enumeration order
MakeGroup(fsys, failed, base_path, conflict_paths) ==
    LET labelled == [i \in 1..Len(conflict_paths) |->
                        stat_candidate(fsys, failed, conflict_paths[i], FALSE,
                                       Label("Conflict", i))]
        sorted == SortPaths({conflict_paths[i] : i \in 1..Len(conflict_paths)})
        rest == [j \in 1..Len(sorted) |->
                    labelled[CHOOSE i \in 1..Len(conflict_paths) :
                                 conflict_paths[i] = sorted[j]]]
    IN [base_path |-> base_path,
        candidates |-> <<stat_candidate(fsys, failed, base_path, TRUE,
                                        Label("Original", 0))>> \o rest,
        chosen |-> None]

RECURSIVE GroupLists(_, _, _, _)
GroupLists(fsys, failed, walked, bases) ==
    IF bases = <<>> THEN {<<>>}
    ELSE LET b == Head(bases)
             mine == {p \in walked : BaseOf(p) = b}
         IN {<<MakeGroup(fsys, failed, b, o)>> \o r :
                o \in Orders(mine),
                r \in GroupLists(fsys, failed, walked, Tail(bases))}

\* the stat calls that may fail in one scan, at most `budget` of them
StatFailures(root, fsys, hidden, budget) ==
    LET w == Walked(root, fsys, hidden) IN
    {F \in SUBSET (w \cup {BaseOf(p) : p \in w}) : Cardinality(F) <= budget}

\* scan.rs scan_conflicts: every group list a scan of fsys can return, with
\* the number of stat calls that failed
scan_conflicts(root, fsys, hidden, budget) ==
    LET w == Walked(root, fsys, hidden)
        bases == SortPaths({BaseOf(p) : p \in w})
    IN UNION {{[groups |-> gl, failed |-> Cardinality(F)] :
                  gl \in GroupLists(fsys, F, w, bases)} :
              F \in StatFailures(root, fsys, hidden, budget)}

\* ------------------------------------------------------------- data model
\* model.rs:23-27 / 32-36: the (index, mtime) pairs of the candidates that
\* have a modification time, in candidate order (indices are 0-based)
RECURSIVE TimedFrom(_, _)
TimedFrom(g, i) ==
    IF i > Len(g.candidates) THEN <<>>
    ELSE (IF IsSome(g.candidates[i].modified)
            THEN <<[i |-> i - 1, m |-> Unwrap(g.candidates[i].modified)]>>
            ELSE <<>>) \o TimedFrom(g, i + 1)

\* Iterator::max_by_key: a later element replaces the best unless the best
\* is strictly greater
RECURSIVE MaxByKey(_, _)
MaxByKey(best, rest) ==
    IF rest = <<>> THEN best
    ELSE MaxByKey(IF best.m > Head(rest).m THEN best ELSE Head(rest), Tail(rest))

\* Iterator::min_by_key: a later element replaces the best only if the best
\* is strictly greater
RECURSIVE MinByKey(_, _)
MinByKey(best, rest) ==
    IF rest = <<>> THEN best
    ELSE MinByKey(IF best.m > Head(rest).m THEN Head(rest) ELSE best, Tail(rest))

\* a variant of newest_idx that returns the first candidate with an mtime
newest_idx_first_timed(g) ==
    LET t == TimedFrom(g, 1) IN
    IF t = <<>> THEN None ELSE Some(Head(t).i)

newest_idx(g) ==
    LET t == TimedFrom(g, 1) IN
    IF t = <<>> THEN None ELSE Some(MaxByKey(Head(t), Tail(t)).i)

oldest_idx(g) ==
    LET t == TimedFrom(g, 1) IN
    IF t = <<>> THEN None ELSE Some(MinByKey(Head(t), Tail(t)).i)

\* ---------------------------------------------------- move/archive engine
\* The I/O calls of one move_file can fail for reasons outside the model
\* (permissions, another device): io names the first call that fails.
IoKinds == {"rename", "copy", "remove"}
NoFault == [path |-> UserPath("a", 0), kind |-> "none"]
IoOf(fault, from) == IF fault.path = from THEN fault.kind ELSE "none"

\* a variant of move_file whose fallback removes the source before it copies
move_file_remove_first(fsys, dirs, from, to, io) ==
    LET made == dirs \cup {Parent(to)}
        renamed == Exists(fsys, from) /\ io = "none"
        copied == Exists(fsys, from) /\ io \in {"rename", "remove"}
    IN IF renamed
         THEN [fs |-> Put(Remove(fsys, from), to, fsys[from]), dirs |-> made, ok |-> TRUE]
       ELSE IF ~Exists(fsys, from)
         THEN [fs |-> fsys, dirs |-> made, ok |-> FALSE]
       ELSE IF ~copied
         THEN [fs |-> Remove(fsys, from), dirs |-> made, ok |-> FALSE]
       ELSE [fs |-> Remove(Put(fsys, to, File(fsys[from].c, MaxTime)), from),
             dirs |-> made, ok |-> io # "remove"]

\* ops.rs move_file: create the parent, rename, else copy then remove.
\* A rename replaces a file already at `to`; a copy gets a fresh mtime.
move_file(fsys, dirs, from, to, io) ==
    LET made == dirs \cup {Parent(to)}
        renamed == Exists(fsys, from) /\ io = "none"
        copied == Exists(fsys, from) /\ io \in {"rename", "remove"}
    IN IF renamed
         THEN [fs |-> Put(Remove(fsys, from), to, fsys[from]), dirs |-> made, ok |-> TRUE]
       ELSE IF ~copied
         THEN [fs |-> fsys, dirs |-> made, ok |-> FALSE]
       ELSE IF io = "remove"
         THEN [fs |-> Put(fsys, to, File(fsys[from].c, MaxTime)), dirs |-> made, ok |-> FALSE]
       ELSE [fs |-> Remove(Put(fsys, to, File(fsys[from].c, MaxTime)), from),
             dirs |-> made, ok |-> TRUE]

\* one entry of the record of filesystem operations of an apply
MoveEntry(op, gi, from, to, fsys, r) ==
    [op |-> op, gi |-> gi, from |-> from, to |-> to, ok |-> r.ok,
     present |-> Exists(fsys, from), occupied |-> Exists(fsys, to),
     moved |-> IF r.ok THEN Some(fsys[from].c) ELSE None]

\* a variant of ArchiveLoop that goes on to the next candidate after a
\* move has failed
RECURSIVE ArchiveLoopPastFailure(_, _, _, _, _, _)
ArchiveLoopPastFailure(st, gi, g, chosen_path, i, env) ==
    IF i > Len(g.candidates) THEN st
    ELSE LET c == g.candidates[i] IN
         IF c.path = chosen_path \/ ~c.exists
           THEN ArchiveLoopPastFailure(st, gi, g, chosen_path, i + 1, env)
         ELSE LET dest == MkPath(archive_dir_for(g.base_path),
                                 unique_name(FileName(c.path), env.ts[st.n + 1]))
                  r == move_file(st.fs, st.dirs, c.path, dest, IoOf(env.fault, c.path))
                  st1 == [st EXCEPT !.fs = r.fs, !.dirs = r.dirs, !.n = @ + 1,
                                    !.ok = r.ok,
                                    !.log = Append(@, MoveEntry("archive", gi, c.path,
                                                                dest, st.fs, r))]
              IN ArchiveLoopPastFailure(st1, gi, g, chosen_path, i + 1, env)

\* tui.rs:497-508: the archive loop of apply_group from candidate i on.
\* st: the filesystem, the directories, the moves so far (log), the clock
\* reads so far (n); env: the I/O fault and the values the clock returns.
RECURSIVE ArchiveLoop(_, _, _, _, _, _)
ArchiveLoop(st, gi, g, chosen_path, i, env) ==
    IF i > Len(g.candidates) THEN st
    ELSE LET c == g.candidates[i] IN
         IF c.path = chosen_path \/ ~c.exists
           THEN ArchiveLoop(st, gi, g, chosen_path, i + 1, env)
         ELSE LET dest == MkPath(archive_dir_for(g.base_path),
                                 unique_name(FileName(c.path), env.ts[st.n + 1]))
                  r == move_file(st.fs, st.dirs, c.path, dest, IoOf(env.fault, c.path))
                  st1 == [st EXCEPT !.fs = r.fs, !.dirs = r.dirs, !.n = @ + 1,
                                    !.ok = r.ok,
                                    !.log = Append(@, MoveEntry("archive", gi, c.path,
                                                                dest, st.fs, r))]
              IN IF r.ok THEN ArchiveLoop(st1, gi, g, chosen_path, i + 1, env) ELSE st1

\* tui.rs:511-513: move the chosen file src into the base path
KeeperMove(st, gi, g, src, env) ==
    LET r == move_file(st.fs, st.dirs, src, g.base_path, IoOf(env.fault, src))
    IN [st EXCEPT !.fs = r.fs, !.dirs = r.dirs, !.ok = r.ok,
                  !.log = Append(@, MoveEntry("keeper", gi, src, g.base_path, st.fs, r))]

\* a variant of ArchiveAndKeep that moves the keeper before it archives
KeepThenArchive(st, gi, g, chosen_idx, env) ==
    LET chosen_path == g.candidates[chosen_idx + 1].path
        st0 == [st EXCEPT !.ok = TRUE, !.dirs = @ \cup {archive_dir_for(g.base_path)}]
        st1 == IF chosen_path = g.base_path THEN st0
               ELSE KeeperMove(st0, gi, g, chosen_path, env)
    IN IF ~st1.ok THEN st1 ELSE ArchiveLoop(st1, gi, g, chosen_path, 1, env)

\* tui.rs:494-515: apply_group once the apply flag is known to be set
ArchiveAndKeep(st, gi, g, chosen_idx, env) ==
    LET base == g.base_path
        archive_dir == archive_dir_for(base)
        chosen_path == g.candidates[chosen_idx + 1].path
        make_base_from == IF chosen_path = base THEN None ELSE Some(chosen_path)
        st0 == [st EXCEPT !.ok = TRUE, !.dirs = @ \cup {archive_dir}]
        st1 == ArchiveLoop(st0, gi, g, chosen_path, 1, env)
    IN IF ~st1.ok \/ ~IsSome(make_base_from) THEN st1
       ELSE KeeperMove(st1, gi, g, Unwrap(make_base_from), env)

\* a variant of apply_group that creates the archive directory before it
\* looks at the apply flag
apply_group_dir_first(st, applyFlag, gi, g, chosen_idx, env) ==
    IF ~applyFlag
      THEN [st EXCEPT !.ok = TRUE, !.dirs = @ \cup {archive_dir_for(g.base_path)}]
    ELSE ArchiveAndKeep(st, gi, g, chosen_idx, env)

\* tui.rs apply_group for group index gi (0-based); st.ok is its Result
apply_group(st, applyFlag, gi, g, chosen_idx, env) ==
    IF ~applyFlag THEN [st EXCEPT !.ok = TRUE]
    ELSE ArchiveAndKeep(st, gi, g, chosen_idx, env)

\* a variant of ApplyLoop that gives up at the first group that fails
RECURSIVE ApplyLoopUntilError(_, _, _, _, _, _)
ApplyLoopUntilError(st, applyFlag, grps, targets, k, env) ==
    IF k > Len(targets) THEN st
    ELSE LET gi == targets[k]
             g == grps[gi + 1]
         IN IF ~IsSome(g.chosen)
              THEN ApplyLoopUntilError(st, applyFlag, grps, targets, k + 1, env)
            ELSE LET r == apply_group(st, applyFlag, gi, g, Unwrap(g.chosen), env)
                     r1 == [r EXCEPT !.tried = Append(@, [gi |-> gi, ok |-> r.ok])]
                 IN IF r.ok
                      THEN ApplyLoopUntilError(r1, applyFlag, grps, targets, k + 1, env)
                    ELSE r1

\* tui.rs:420-432: the loop of apply_plan over the targets from position k
\* on; st.tried records each group handed to apply_group and its Result
RECURSIVE ApplyLoop(_, _, _, _, _, _)
ApplyLoop(st, applyFlag, grps, targets, k, env) ==
    IF k > Len(targets) THEN st
    ELSE LET gi == targets[k]
             g == grps[gi + 1]
         IN IF ~IsSome(g.chosen)
              THEN ApplyLoop(st, applyFlag, grps, targets, k + 1, env)
            ELSE LET r == apply_group(st, applyFlag, gi, g, Unwrap(g.chosen), env)
                 IN ApplyLoop([r EXCEPT !.tried = Append(@, [gi |-> gi, ok |-> r.ok])],
                              applyFlag, grps, targets, k + 1, env)

\* ------------------------------------------------------------ controller
VARIABLES
    fs,               \* the files below the root
    dirs,             \* the directories below the root
    now,              \* the last value the millisecond clock returned
    ext,              \* interferences of the environment so far
    apply,            \* App.apply
    root,             \* App.root
    include_hidden,   \* App.include_hidden
    mode,             \* App.mode
    groups,           \* App.groups
    list_state,       \* App.list_state.selected()
    pick_state,       \* App.pick_state.selected()
    selected_groups,  \* App.selected_groups
    message,          \* what the last step wrote to App.message
    planned_ops,      \* App.planned_ops
    planned_targets,  \* App.planned_targets
    exit,             \* how run_loop has returned, "running" while it has not
    oplog,            \* the moves of the last step, in order
    tried             \* the groups the last step handed to apply_group

vars == <<fs, dirs, now, ext, apply, root, include_hidden, mode, groups, list_state,
          pick_state, selected_groups, message, planned_ops, planned_targets,
          exit, oplog, tried>>

disk == <<fs, dirs, now, ext>>

\* App.message is written and never read by the controller. The variable
\* holds what the last step wrote to it, and Unwritten when that step left
\* the text on screen as it was.
Msg(text, n) == [text |-> text, n |-> n]
Unwritten == Msg("(unchanged)", 0)
Line(t, path) == [t |-> t, path |-> path]

\* the trees a session can start on: one base name with any of its
\* original and up to MaxConf conflict variants, of any age; or every base
\* name with its original and one newer conflict variant; or a hidden base
\* name with its original and one conflict variant
TreesOver(paths, times) ==
    {[p \in DOMAIN t |-> File(Content(p, "init"), t[p])] :
        t \in UNION {[S -> times] : S \in SUBSET paths}}
PairTree ==
    [p \in {UserPath(b, k) : b \in BaseNames, k \in 0..1} |->
        File(Content(p, "init"), IF p.name.conf = 0 THEN 1 ELSE MaxTime)]
HiddenTree ==
    [p \in {MkPath(UserDir, MkName(HiddenName, k, <<>>)) : k \in 0..1} |->
        File(Content(p, "init"), 1)]
InitialTrees ==
    TreesOver({UserPath("a", k) : k \in 0..MaxConf}, 1..MaxTime)
      \cup {PairTree, HiddenTree}

\* tui.rs run: scan, build the App, put the cursor on the first group. The
\* components of the root are read only when include_hidden is unset
\* (scan.rs:38), so a session with it set is started on the visible root.
Init ==
    /\ fs \in InitialTrees
    /\ dirs = {UserDir}
    /\ now = 0
    /\ apply \in BOOLEAN
    /\ include_hidden \in BOOLEAN
    /\ root \in Roots
    /\ include_hidden => root = VisibleRoot
    /\ mode = "List"
    /\ \E sc \in scan_conflicts(root, fs, include_hidden, MaxExt) :
          /\ groups = sc.groups
          /\ ext = sc.failed
    /\ list_state = IF groups # <<>> THEN Some(0) ELSE None
    /\ pick_state = None
    /\ selected_groups = {}
    /\ message = Msg("", 0)
    /\ planned_ops = <<>>
    /\ planned_targets = <<>>
    /\ exit = "running"
    /\ oplog = <<>>
    /\ tried = <<>>

\* The model follows a session while the clock has a value left for an
\* apply; once it has none, only the dialog it ran out in is still answered.
Running == exit = "running" /\ (now < MaxStamp \/ mode = "Confirm")

\* a key handler that performs no filesystem operation and returns Ok(false)
Handled(msg) ==
    /\ message' = msg
    /\ oplog' = <<>>
    /\ tried' = <<>>
    /\ UNCHANGED <<root, include_hidden, exit, disk>>

\* tui.rs:129: an Err from handle_key ends run_loop with that error
Failed ==
    /\ exit' = "error"
    /\ message' = Unwritten
    /\ oplog' = <<>>
    /\ tried' = <<>>
    /\ UNCHANGED <<root, include_hidden, disk>>

\* tui.rs:139 and :152: Ok(true) ends run_loop
Leave(how) ==
    /\ exit' = how
    /\ message' = Unwritten
    /\ oplog' = <<>>
    /\ tried' = <<>>
    /\ UNCHANGED <<apply, mode, groups, list_state, pick_state, selected_groups,
                   planned_ops, planned_targets, root, include_hidden, disk>>

\* a variant of Interrupt that handles Ctrl-C in List only
InterruptInList ==
    /\ Running /\ mode = "List"
    /\ Leave("interrupt")

\* tui.rs:139: Ctrl-C in any mode
Interrupt ==
    /\ Running
    /\ Leave("interrupt")

\* tui.rs:152: 'q' in List
Quit ==
    /\ Running /\ mode = "List"
    /\ Leave("quit")

\* tui.rs:141-150
ToggleApply ==
    /\ Running /\ mode \in {"List", "Pick", "Confirm"}
    /\ apply' = ~apply
    /\ Handled(IF apply' THEN Msg("Mode: APPLY (will move files)", 0)
               ELSE Msg("Mode: DRY-RUN (no filesystem changes)", 0))
    /\ UNCHANGED <<mode, groups, list_state, pick_state, selected_groups,
                   planned_ops, planned_targets>>

\* tui.rs:153-156
PickEsc ==
    /\ Running /\ mode = "Pick"
    /\ mode' = "List"
    /\ pick_state' = None
    /\ Handled(Unwritten)
    /\ UNCHANGED <<apply, groups, list_state, selected_groups, planned_ops,
                   planned_targets>>

\* a variant of LeaveConfirm that leaves the planned targets in place
LeaveConfirmKeepingTargets(msg) ==
    /\ Running /\ mode = "Confirm"
    /\ mode' = "List"
    /\ planned_ops' = <<>>
    /\ Handled(msg)
    /\ UNCHANGED <<apply, groups, list_state, pick_state, selected_groups,
                   planned_targets>>

\* tui.rs:157-162 and :203-208: Esc or 'n' in Confirm
LeaveConfirm(msg) ==
    /\ Running /\ mode = "Confirm"
    /\ mode' = "List"
    /\ planned_ops' = <<>>
    /\ planned_targets' = <<>>
    /\ Handled(msg)
    /\ UNCHANGED <<apply, groups, list_state, pick_state, selected_groups>>

ConfirmEsc == LeaveConfirm(Msg("", 0))

ConfirmNo == LeaveConfirm(Msg("Cancelled", 0))

\* a variant of list_down that does not stop at the last row
list_down_unclamped(state, len) ==
    IF len = 0 THEN None
    ELSE IF state = None THEN Some(0)
    ELSE Some(Unwrap(state) + 1)

\* tui.rs list_down / list_up on a ListState
list_down(state, len) ==
    IF len = 0 THEN None
    ELSE IF state = None THEN Some(0)
    ELSE Some(IF Unwrap(state) + 1 < len - 1 THEN Unwrap(state) + 1 ELSE len - 1)

list_up(state, len) ==
    IF len = 0 THEN None
    ELSE IF state = None THEN Some(0)
    ELSE Some(IF Unwrap(state) > 0 THEN Unwrap(state) - 1 ELSE 0)

\* tui.rs current_group_len
current_group_len ==
    IF list_state = None THEN 0
    ELSE IF Unwrap(list_state) < Len(groups)
      THEN Len(groups[Unwrap(list_state) + 1].candidates)
    ELSE 0

\* tui.rs:163-164
MoveList(to) ==
    /\ Running /\ mode = "List"
    /\ list_state' = to
    /\ Handled(Unwritten)
    /\ UNCHANGED <<apply, mode, groups, pick_state, selected_groups, planned_ops,
                   planned_targets>>

ListDown == MoveList(list_down(list_state, Len(groups)))

ListUp == MoveList(list_up(list_state, Len(groups)))

\* tui.rs:165-172
MovePick(to) ==
    /\ Running /\ mode = "Pick"
    /\ pick_state' = to
    /\ Handled(Unwritten)
    /\ UNCHANGED <<apply, mode, groups, list_state, selected_groups, planned_ops,
                   planned_targets>>

PickDown == MovePick(list_down(pick_state, current_group_len))

PickUp == MovePick(list_up(pick_state, current_group_len))

\* tui.rs toggle_selected
toggle_selected ==
    /\ Running /\ mode = "List"
    /\ selected_groups' =
          IF list_state = None THEN selected_groups
          ELSE IF Unwrap(list_state) \in selected_groups
            THEN selected_groups \ {Unwrap(list_state)}
          ELSE selected_groups \cup {Unwrap(list_state)}
    /\ Handled(Unwritten)
    /\ UNCHANGED <<apply, mode, groups, list_state, pick_state, planned_ops,
                   planned_targets>>

\* tui.rs:233-239: the candidate a quick pick chooses in group g
QuickIdx(kind, g) ==
    CASE kind = "Current" -> Some(0)
      [] kind = "Newest" -> IF IsSome(newest_idx(g)) THEN newest_idx(g) ELSE Some(0)
      [] kind = "Oldest" -> IF IsSome(oldest_idx(g)) THEN oldest_idx(g) ELSE Some(0)

\* tui.rs:222-226 / 362-366: the cursor's group or the multi-select set
Targets(selected_only) ==
    IF selected_only THEN selected_groups
    ELSE IF list_state = None THEN {} ELSE {Unwrap(list_state)}

RECURSIVE SortInts(_)
SortInts(S) ==
    IF S = {} THEN <<>>
    ELSE LET m == CHOOSE x \in S : \A y \in S : x <= y IN <<m>> \o SortInts(S \ {m})

PickedText(kind, selected_only) ==
    CASE kind = "Current" /\ ~selected_only -> "Picked current"
      [] kind = "Newest" /\ ~selected_only -> "Picked newest"
      [] kind = "Oldest" /\ ~selected_only -> "Picked oldest"
      [] kind = "Current" /\ selected_only -> "Picked current for selected"
      [] kind = "Newest" /\ selected_only -> "Picked newest for selected"
      [] kind = "Oldest" /\ selected_only -> "Picked oldest for selected"

\* a variant of pick_kind_for_targets that leaves the multi-select set alone
pick_kind_without_select(kind, selected_only) ==
    LET targets == Targets(selected_only) IN
    /\ Running /\ mode = "List"
    /\ IF targets = {}
         THEN Handled(Msg("No groups selected", 0)) /\ UNCHANGED groups
         ELSE /\ groups' = [i \in 1..Len(groups) |->
                              IF i - 1 \in targets
                                THEN [groups[i] EXCEPT !.chosen = QuickIdx(kind, groups[i])]
                                ELSE groups[i]]
              /\ Handled(Msg(PickedText(kind, selected_only), 0))
    /\ UNCHANGED <<apply, mode, list_state, pick_state, selected_groups,
                   planned_ops, planned_targets>>

\* tui.rs pick_kind_for_targets
pick_kind_for_targets(kind, selected_only) ==
    LET targets == Targets(selected_only) IN
    /\ Running /\ mode = "List"
    /\ IF targets = {}
         THEN /\ Handled(Msg("No groups selected", 0))
              /\ UNCHANGED <<groups, selected_groups>>
         ELSE /\ groups' = [i \in 1..Len(groups) |->
                              IF i - 1 \in targets
                                THEN [groups[i] EXCEPT !.chosen = QuickIdx(kind, groups[i])]
                                ELSE groups[i]]
              /\ selected_groups' = selected_groups \cup targets
              /\ Handled(Msg(PickedText(kind, selected_only), 0))
    /\ UNCHANGED <<apply, mode, list_state, pick_state, planned_ops, planned_targets>>

QuickPick == \E kind \in {"Current", "Newest", "Oldest"}, selected_only \in BOOLEAN :
                pick_kind_for_targets(kind, selected_only)

\* tui.rs enter_pick
enter_pick ==
    /\ Running /\ mode = "List"
    /\ IF list_state = None \/ ~(Unwrap(list_state) < Len(groups))
         THEN /\ Failed
              /\ UNCHANGED <<mode, pick_state>>
         ELSE /\ mode' = "Pick"
              /\ pick_state' =
                    LET n == newest_idx(groups[Unwrap(list_state) + 1]) IN
                    IF IsSome(n) THEN n ELSE Some(0)
              /\ Handled(Unwritten)
    /\ UNCHANGED <<apply, groups, list_state, selected_groups, planned_ops,
                   planned_targets>>

\* a variant of Commit that writes the chosen value into the first group
CommitToFirstGroup(idx, text) ==
    /\ Running /\ mode = "Pick"
    /\ IF list_state = None \/ ~IsSome(idx)
         THEN /\ Failed
              /\ UNCHANGED <<groups, mode>>
         ELSE /\ groups' = [groups EXCEPT ![1].chosen = idx]
              /\ mode' = "List"
              /\ Handled(Msg(text, 0))
    /\ UNCHANGED <<apply, list_state, pick_state, selected_groups, planned_ops,
                   planned_targets>>

\* tui.rs pick_current, pick_original, pick_newest, pick_oldest: `?` hands a
\* missing cursor or a missing index to run_loop; otherwise the candidate is
\* committed as chosen, the mode is List and a message is written
Commit(idx, text) ==
    /\ Running /\ mode = "Pick"
    /\ IF list_state = None \/ ~IsSome(idx)
         THEN /\ Failed
              /\ UNCHANGED <<groups, mode>>
         ELSE /\ groups' = [groups EXCEPT ![Unwrap(list_state) + 1].chosen = idx]
              /\ mode' = "List"
              /\ Handled(Msg(text, 0))
    /\ UNCHANGED <<apply, list_state, pick_state, selected_groups, planned_ops,
                   planned_targets>>

CursorGroup == groups[Unwrap(list_state) + 1]

pick_current == Commit(pick_state, "Picked")

pick_original == Commit(Some(0), "Picked original")

pick_newest ==
    Commit(IF list_state = None THEN None ELSE newest_idx(CursorGroup), "Picked newest")

pick_oldest ==
    Commit(IF list_state = None THEN None ELSE oldest_idx(CursorGroup), "Picked oldest")

\* tui.rs plan_group_ops: the three lines of one group
plan_group_ops(g, chosen_idx) ==
    <<Line("Group", g.base_path),
      Line("keep", g.candidates[chosen_idx + 1].path),
      Line("archive", MkPath(archive_dir_for(g.base_path), MkName("", 0, <<>>)))>>

\* a variant of PlanLoop that keeps the lines planned so far when it aborts
RECURSIVE PlanLoopPartial(_, _, _, _)
PlanLoopPartial(grps, targets, k, ops) ==
    IF k > Len(targets) THEN [ok |-> TRUE, ops |-> ops]
    ELSE LET g == grps[targets[k] + 1] IN
         IF ~IsSome(g.chosen) THEN [ok |-> FALSE, ops |-> ops]
         ELSE PlanLoopPartial(grps, targets, k + 1,
                              ops \o plan_group_ops(g, Unwrap(g.chosen)))

\* tui.rs:376-385: the planning loop from position k on; ok is FALSE once a
\* target without a chosen candidate is met, and the plan is then cleared
RECURSIVE PlanLoop(_, _, _, _)
PlanLoop(grps, targets, k, ops) ==
    IF k > Len(targets) THEN [ok |-> TRUE, ops |-> ops]
    ELSE LET g == grps[targets[k] + 1] IN
         IF ~IsSome(g.chosen) THEN [ok |-> FALSE, ops |-> <<>>]
         ELSE PlanLoop(grps, targets, k + 1, ops \o plan_group_ops(g, Unwrap(g.chosen)))

\* tui.rs plan_and_confirm
plan_and_confirm(all_selected) ==
    LET targets == SortInts(Targets(all_selected))
        plan == PlanLoop(groups, targets, 1, <<>>)
    IN
    /\ Running /\ mode = "List"
    /\ IF targets = <<>>
         THEN /\ Handled(Msg("No groups selected", 0))
              /\ UNCHANGED <<planned_ops, planned_targets, mode>>
         ELSE IF ~plan.ok
           THEN /\ Handled(Msg("Pick a version first (Enter)", 0))
                /\ planned_ops' = plan.ops
                /\ planned_targets' = <<>>
                /\ UNCHANGED mode
         ELSE /\ planned_ops' = plan.ops
              /\ planned_targets' = targets
              /\ mode' = "Confirm"
              /\ Handled(Unwritten)
    /\ UNCHANGED <<apply, groups, list_state, pick_state, selected_groups>>

Plan == \E all_selected \in BOOLEAN : plan_and_confirm(all_selected)

\* the values successive reads of the clock can return: non-decreasing
RECURSIVE ClockReads(_, _, _)
ClockReads(n, lo, hi) ==
    IF n = 0 THEN {<<>>}
    ELSE UNION {{<<t>> \o r : r \in ClockReads(n - 1, t, hi)} : t \in lo..hi}

RECURSIVE SumLens(_, _, _)
SumLens(grps, targets, k) ==
    IF k > Len(targets) THEN 0
    ELSE Len(grps[targets[k] + 1].candidates) + SumLens(grps, targets, k + 1)

\* what the environment decides during one apply_plan: the values the clock
\* returns (later than any it returned before) and, while the session's
\* budget of interferences lasts, one source path whose I/O fails
Envs(grps, targets, used) ==
    LET paths == UNION {{grps[targets[k] + 1].candidates[i].path :
                            i \in 1..Len(grps[targets[k] + 1].candidates)} :
                        k \in 1..Len(targets)}
        faults == {NoFault} \cup
                  (IF used < MaxExt
                     THEN {[path |-> q, kind |-> kd] : q \in paths, kd \in IoKinds}
                     ELSE {})
    IN {[ts |-> t, fault |-> f] :
           t \in ClockReads(SumLens(grps, targets, 1), now + 1, MaxStamp), f \in faults}
DryEnv == [ts |-> <<>>, fault |-> NoFault]

RECURSIVE ErrorLines(_, _)
ErrorLines(grps, results) ==
    IF results = <<>> THEN <<>>
    ELSE (IF Head(results).ok THEN <<>>
          ELSE <<Line("error", grps[Head(results).gi + 1].base_path)>>)
         \o ErrorLines(grps, Tail(results))

\* a variant of rescan that leaves the multi-select set as it was
rescan_keeping_selection(fsys, used, walked) ==
    IF ~walked
      THEN /\ ext' = used + 1
           /\ UNCHANGED <<groups, selected_groups, pick_state, list_state>>
    ELSE /\ \E sc \in scan_conflicts(root, fsys, include_hidden, MaxExt - used) :
               /\ groups' = sc.groups
               /\ ext' = used + sc.failed
         /\ selected_groups' = selected_groups
         /\ pick_state' = None
         /\ list_state' = IF groups' # <<>> THEN Some(0) ELSE None

\* tui.rs rescan, on the filesystem fsys with `used` interferences so far.
\* walked is FALSE when the directory walk of scan_conflicts returns an
\* error (scan.rs:33): `?` leaves rescan before it has written anything.
rescan(fsys, used, walked) ==
    IF ~walked
      THEN /\ ext' = used + 1
           /\ UNCHANGED <<groups, selected_groups, pick_state, list_state>>
    ELSE /\ \E sc \in scan_conflicts(root, fsys, include_hidden, MaxExt - used) :
               /\ groups' = sc.groups
               /\ ext' = used + sc.failed
         /\ selected_groups' = {}
         /\ pick_state' = None
         /\ list_state' = IF groups' # <<>> THEN Some(0) ELSE None

\* a variant of Finish that empties the planned targets after a dry run
FinishDroppingDryPlan(r, used) ==
    LET errors == ErrorLines(groups, r.tried) IN
    IF errors = <<>>
      THEN IF apply
             THEN /\ planned_ops' = <<>>
                  /\ planned_targets' = <<>>
                  /\ \E walked \in {TRUE} \cup (IF used < MaxExt THEN {FALSE} ELSE {}) :
                        /\ rescan(r.fs, used, walked)
                        /\ IF walked
                             THEN /\ mode' = "List"
                                  /\ message' = Msg("Applied", 0)
                                  /\ UNCHANGED exit
                             ELSE /\ exit' = "error"
                                  /\ message' = Unwritten
                                  /\ UNCHANGED mode
             ELSE /\ mode' = "Confirm"
                  /\ message' = Msg("Dry-run complete", 0)
                  /\ ext' = used
                  /\ planned_targets' = <<>>
                  /\ UNCHANGED <<planned_ops, groups, selected_groups, pick_state,
                                 list_state, exit>>
    ELSE /\ planned_targets' = <<>>
         /\ message' = Msg("Some groups failed", Len(errors))
         /\ planned_ops' = errors
         /\ mode' = "Confirm"
         /\ ext' = used
         /\ UNCHANGED <<groups, selected_groups, pick_state, list_state, exit>>

\* a variant of Finish that keeps the planned targets of a failed batch
FinishKeepingFailedPlan(r, used) ==
    LET errors == ErrorLines(groups, r.tried) IN
    IF errors = <<>>
      THEN IF apply
             THEN /\ planned_ops' = <<>>
                  /\ planned_targets' = <<>>
                  /\ \E walked \in {TRUE} \cup (IF used < MaxExt THEN {FALSE} ELSE {}) :
                        /\ rescan(r.fs, used, walked)
                        /\ IF walked
                             THEN /\ mode' = "List"
                                  /\ message' = Msg("Applied", 0)
                                  /\ UNCHANGED exit
                             ELSE /\ exit' = "error"
                                  /\ message' = Unwritten
                                  /\ UNCHANGED mode
             ELSE /\ mode' = "Confirm"
                  /\ message' = Msg("Dry-run complete", 0)
                  /\ ext' = used
                  /\ UNCHANGED <<planned_ops, planned_targets, groups,
                                 selected_groups, pick_state, list_state, exit>>
    ELSE /\ UNCHANGED planned_targets
         /\ message' = Msg("Some groups failed", Len(errors))
         /\ planned_ops' = errors
         /\ mode' = "Confirm"
         /\ ext' = used
         /\ UNCHANGED <<groups, selected_groups, pick_state, list_state, exit>>

\* tui.rs:434-460: what apply_plan does with the outcome r of its loop
Finish(r, used) ==
    LET errors == ErrorLines(groups, r.tried) IN
    IF errors = <<>>
      THEN IF apply
             THEN /\ planned_ops' = <<>>
                  /\ planned_targets' = <<>>
                  /\ \E walked \in {TRUE} \cup (IF used < MaxExt THEN {FALSE} ELSE {}) :
                        /\ rescan(r.fs, used, walked)
                        /\ IF walked
                             THEN /\ mode' = "List"
                                  /\ message' = Msg("Applied", 0)
                                  /\ UNCHANGED exit
                             ELSE /\ exit' = "error"
                                  /\ message' = Unwritten
                                  /\ UNCHANGED mode
             ELSE /\ mode' = "Confirm"
                  /\ message' = Msg("Dry-run complete", 0)
                  /\ ext' = used
                  /\ UNCHANGED <<planned_ops, planned_targets, groups,
                                 selected_groups, pick_state, list_state, exit>>
    ELSE /\ planned_targets' = <<>>
         /\ message' = Msg("Some groups failed", Len(errors))
         /\ planned_ops' = errors
         /\ mode' = "Confirm"
         /\ ext' = used
         /\ UNCHANGED <<groups, selected_groups, pick_state, list_state, exit>>

\* Another process removes a user file, or puts one where none was. No
\* handler but an apply that moves files reads the filesystem, so a change
\* made at any moment since the last scan is one the apply meets when it
\* starts: the filesystems an apply can meet, with the interferences used.
Meets ==
    {[fs |-> fs, used |-> ext]} \cup
    (IF ext < MaxExt
       THEN {[fs |-> Remove(fs, p), used |-> ext + 1] : p \in DOMAIN fs \cap UserPaths}
            \cup {[fs |-> Put(fs, p, File(Content(p, "ext"), MaxTime)), used |-> ext + 1] :
                     p \in UserPaths \ DOMAIN fs}
       ELSE {})

\* tui.rs apply_plan ('y' in Confirm); an apply that moves files needs a
\* clock value the session has not seen
apply_plan ==
    /\ Running /\ mode = "Confirm"
    /\ UNCHANGED <<apply, root, include_hidden>>
    /\ IF planned_targets = <<>>
         THEN /\ message' = Msg("Nothing planned", 0)
              /\ mode' = "List"
              /\ planned_ops' = <<>>
              /\ oplog' = <<>>
              /\ tried' = <<>>
              /\ UNCHANGED <<planned_targets, groups, selected_groups, pick_state,
                             list_state, exit, disk>>
         ELSE IF ~apply
           THEN LET r == ApplyLoop([fs |-> fs, dirs |-> dirs, n |-> 0, ok |-> TRUE,
                                    log |-> <<>>, tried |-> <<>>],
                                   apply, groups, planned_targets, 1, DryEnv)
                IN /\ fs' = r.fs
                   /\ dirs' = r.dirs
                   /\ oplog' = r.log
                   /\ tried' = r.tried
                   /\ UNCHANGED now
                   /\ Finish(r, ext)
         ELSE /\ now < MaxStamp
              /\ \E met \in Meets : \E env \in Envs(groups, planned_targets, met.used) :
                    LET r == ApplyLoop([fs |-> met.fs, dirs |-> dirs, n |-> 0, ok |-> TRUE,
                                        log |-> <<>>, tried |-> <<>>],
                                       apply, groups, planned_targets, 1, env)
                    IN /\ fs' = r.fs
                       /\ dirs' = r.dirs
                       /\ now' = IF r.n > 0 THEN env.ts[r.n] ELSE now
                       /\ oplog' = r.log
                       /\ tried' = r.tried
                       /\ Finish(r, IF env.fault = NoFault THEN met.used ELSE met.used + 1)

Next ==
    \/ Interrupt
    \/ Quit
    \/ ToggleApply
    \/ PickEsc
    \/ ConfirmEsc
    \/ ConfirmNo
    \/ ListDown
    \/ ListUp
    \/ PickDown
    \/ PickUp
    \/ toggle_selected
    \/ QuickPick
    \/ enter_pick
    \/ pick_current
    \/ pick_original
    \/ pick_newest
    \/ pick_oldest
    \/ Plan
    \/ apply_plan

Spec == Init /\ [][Next]_vars

TypeOK ==
    /\ mode \in {"List", "Pick", "Confirm"}
    /\ exit \in {"running", "quit", "interrupt", "error"}
    /\ now \in 0..MaxStamp
    /\ ext \in 0..MaxExt

\* ------------------------------------------------------------ properties
\* the step is the handling of 'y' in Confirm: apply_plan is the only handler
\* of Confirm that writes one of these messages or returns an error
Confirming ==
    /\ mode = "Confirm" /\ exit = "running"
    /\ \/ message'.text \in {"Nothing planned", "Applied", "Dry-run complete",
                             "Some groups failed"}
       \/ exit' = "error"

\* a confirm in apply mode with planned targets
ApplyingFiles == Confirming /\ apply /\ planned_targets # <<>>

ChosenOf(g) == g.candidates[Unwrap(g.chosen) + 1]
Entries(log, gi, op) == {i \in 1..Len(log) : log[i].gi = gi /\ log[i].op = op}

\* C1: the files and the directories change only in a step that handles a
\* confirm in Confirm with the apply flag set; no other step, a dry-run
\* confirm included, creates the archive directory or touches a file.
C1_OnlyApplyConfirmChangesDisk ==
    [][(fs' # fs \/ dirs' # dirs) => ApplyingFiles]_vars

\* C1 case: a dry-run confirm has handed a group to apply_group and the tree
\* is as it was, without an archive directory
C1_DryRunConfirmed ==
    /\ ~apply /\ message = Msg("Dry-run complete", 0) /\ tried # <<>>
    /\ oplog = <<>> /\ dirs = {UserDir} /\ fs \in InitialTrees

\* C2: every move of an apply that succeeds finds no file at its destination.
C2_MovesOnlyOntoFreePaths ==
    \A i \in 1..Len(oplog) : oplog[i].ok => ~oplog[i].occupied

\* C2 case: the keeper was renamed onto a base path that held a file
C2_KeeperReplacedAFile ==
    \E i \in 1..Len(oplog) :
        oplog[i].op = "keeper" /\ oplog[i].ok /\ oplog[i].occupied

\* C3: after an apply-mode confirm, for every group that succeeded with a
\* conflict variant chosen: the archive directory exists; every file the
\* group archived is in the archive directory with its content; no file is
\* left at the path of a conflict variant that was not kept; the keeper
\* arrived at a free base path (a file that was there has been archived), the
\* base path holds the keeper's content and the keeper's path is empty.
C3_ConflictKeptRestArchived ==
    [][ApplyingFiles =>
        \A k \in 1..Len(tried') :
            LET gi == tried'[k].gi
                g == groups[gi + 1]
                kept == ChosenOf(g)
                archive == archive_dir_for(g.base_path)
            IN (tried'[k].ok /\ ~kept.is_original) =>
                 /\ archive \in dirs'
                 /\ \A i \in Entries(oplog', gi, "archive") :
                       /\ oplog'[i].ok
                       /\ oplog'[i].to.dir = archive
                       /\ oplog'[i].to \in DOMAIN fs'
                       /\ fs'[oplog'[i].to].c = Unwrap(oplog'[i].moved)
                 /\ \A j \in 1..Len(g.candidates) :
                       LET c == g.candidates[j] IN
                       (c # kept /\ ~c.is_original) => c.path \notin DOMAIN fs'
                 /\ \E i \in Entries(oplog', gi, "keeper") :
                       /\ oplog'[i].ok
                       /\ ~oplog'[i].occupied
                       /\ g.base_path \in DOMAIN fs'
                       /\ fs'[g.base_path].c = Unwrap(oplog'[i].moved)
                       /\ kept.path \notin DOMAIN fs']_vars

\* C3 case: a group succeeded with a conflict variant kept and its original
\* archived first
C3_OriginalArchivedConflictKept ==
    /\ message = Msg("Applied", 0)
    /\ \E i, j \in 1..Len(oplog) :
          /\ oplog[j].op = "archive" /\ oplog[j].from.name.conf = 0 /\ oplog[j].ok
          /\ oplog[i].op = "keeper" /\ oplog[i].gi = oplog[j].gi /\ oplog[i].ok
          /\ ~oplog[i].occupied

C5_MissingCandidateSkipped ==
    \A i \in 1..Len(oplog) : oplog[i].op = "archive" => oplog[i].present

\* C5 case: a group failed at the archive move of a file that was gone
C5_FailedOnMissingCandidate ==
    /\ message = Msg("Some groups failed", 1)
    /\ \E i \in 1..Len(oplog) :
          oplog[i].op = "archive" /\ ~oplog[i].present /\ ~oplog[i].ok

\* C6: a confirm with planned targets hands every planned target to
\* apply_group once, in strictly increasing index order, whatever the earlier
\* groups returned; the errors reported are as many as the groups that failed.
C6_EveryTargetTriedInOrder ==
    [][(Confirming /\ planned_targets # <<>>) =>
        LET failed == {k \in 1..Len(tried') : ~tried'[k].ok} IN
        /\ [k \in 1..Len(tried') |-> tried'[k].gi] = planned_targets
        /\ \A a, b \in 1..Len(tried') : a < b => tried'[a].gi < tried'[b].gi
        /\ IF failed = {}
             THEN message'.text # "Some groups failed"
             ELSE /\ message' = Msg("Some groups failed", Cardinality(failed))
                  /\ Len(planned_ops') = Cardinality(failed)]_vars

\* C6 case: the first group of a batch failed and the second was applied
C6_SecondAppliedAfterFailure ==
    /\ Len(tried) = 2 /\ ~tried[1].ok /\ tried[2].ok
    /\ message = Msg("Some groups failed", 1)
    /\ \E i \in 1..Len(oplog) : oplog[i].gi = tried[2].gi /\ oplog[i].ok

\* the chosen file of g was on disk before the step, is gone after it, and
\* no move of the step took it away: it vanished behind the session's back
VanishedChosen(g) ==
    LET c == ChosenOf(g) IN
    /\ c.exists /\ c.path \in DOMAIN fs /\ c.path \notin DOMAIN fs'
    /\ ~\E i \in 1..Len(oplog') : oplog'[i].from = c.path /\ oplog'[i].ok

\* C7: when an apply-mode confirm finds the chosen file of exactly one target
\* group vanished, exactly one failure is reported and every other target
\* group succeeds.
C7_OneVanishedOneFailure ==
    [][(ApplyingFiles
          /\ Cardinality({k \in 1..Len(planned_targets) :
                             VanishedChosen(groups[planned_targets[k] + 1])}) = 1) =>
        /\ message' = Msg("Some groups failed", 1)
        /\ \A k \in 1..Len(tried') :
              ~VanishedChosen(groups[tried'[k].gi + 1]) => tried'[k].ok]_vars

\* C7 case: a batch of two groups was applied and reported no failure although
\* a chosen original had vanished
C7_VanishedOriginalReportedApplied ==
    /\ message = Msg("Applied", 0) /\ Len(tried) = 2
    /\ \E b \in BaseNames :
          /\ UserPath(b, 0) \notin DOMAIN fs
          /\ \A q \in DOMAIN fs : fs[q].c.at # UserPath(b, 0)

\* the groups are a result of scanning fsys, and the controller is as rescan
\* and apply_plan leave it
Rescanned(fsys) ==
    /\ groups' \in {sc.groups : sc \in scan_conflicts(root, fsys, include_hidden, MaxExt)}
    /\ \A i \in 1..Len(groups') : groups'[i].chosen = None
    /\ selected_groups' = {}
    /\ planned_ops' = <<>>
    /\ planned_targets' = <<>>
    /\ list_state' = IF groups' = <<>> THEN None ELSE Some(0)
    /\ mode' = "List"

NotRescanned ==
    /\ groups' = groups
    /\ selected_groups' = selected_groups
    /\ list_state' = list_state
    /\ pick_state' = pick_state

C9_PlanAbortsWithoutChoice ==
    [][\A all_selected \in BOOLEAN :
          (/\ plan_and_confirm(all_selected)
           /\ \E gi \in Targets(all_selected) : ~IsSome(groups[gi + 1].chosen)) =>
            /\ mode' = "List"
            /\ planned_ops' = <<>>
            /\ planned_targets' = <<>>
            /\ message' = Msg("Pick a version first (Enter)", 0)
            /\ groups' = groups
            /\ selected_groups' = selected_groups]_vars

\* C9 case: a plan for two selected groups was refused because only the
\* first has a chosen candidate
C9_RefusedAfterFirstGroup ==
    /\ message = Msg("Pick a version first (Enter)", 0) /\ mode = "List"
    /\ selected_groups = {0, 1}
    /\ IsSome(groups[1].chosen) /\ ~IsSome(groups[2].chosen)
    /\ planned_ops = <<>> /\ planned_targets = <<>>

\* C10: in Pick on a group without any modification time, the newest and the
\* oldest shortcut leave the mode Pick, the chosen values as they were and the
\* session running.
C10_ShortcutWithoutMtimeStaysInPick ==
    [][(/\ mode = "Pick" /\ list_state # None
        /\ newest_idx(CursorGroup) = None
        /\ (pick_newest \/ pick_oldest)) =>
          /\ mode' = "Pick"
          /\ groups' = groups
          /\ exit' = "running"]_vars

\* C10 case: the session has ended with an error in Pick on a group without
\* any modification time
C10_SessionEndedInPick ==
    /\ exit = "error" /\ mode = "Pick" /\ list_state # None
    /\ newest_idx(CursorGroup) = None

\* C11: a running session ends only through the quit taken in List or
\* through the interrupt: no step ends it with an error.
C11_EndsOnlyByQuitOrInterrupt ==
    [][(exit = "running" /\ exit' # "running") =>
          \/ exit' = "quit" /\ mode = "List"
          \/ exit' = "interrupt"]_vars

\* C11 case: Enter on an empty group list has ended the session with an error
C11_EnterOnEmptyListEndedSession ==
    /\ exit = "error" /\ mode = "List" /\ groups = <<>> /\ list_state = None
    /\ message = Unwritten

\* C12: the interrupt is handled in every mode of a running session, and the
\* step that handles it ends the session at once, leaving the files, the
\* directories, the groups with their chosen values, the plan lines and the
\* planned targets as they were.
C12_InterruptEndsSessionAtOnce ==
    /\ [](Running => ENABLED Interrupt)
    /\ [][Interrupt =>
            /\ exit' = "interrupt"
            /\ UNCHANGED <<fs, dirs, groups, planned_ops, planned_targets>>]_vars

\* C12 case: the session was interrupted in Confirm with a plan on screen
C12_InterruptedInConfirm ==
    /\ exit = "interrupt" /\ mode = "Confirm"
    /\ planned_targets # <<>> /\ planned_ops # <<>>

\* C13: Esc in Pick returns to List and changes neither a chosen value nor the
\* multi-select set; Esc or 'n' in Confirm returns to List with the plan
\* lines and the planned targets emptied, while the chosen values, the
\* multi-select set, the apply flag and the filesystem stay as they were.
C13_CancelKeepsChoices ==
    [][/\ PickEsc => /\ mode' = "List"
                     /\ UNCHANGED <<groups, selected_groups>>
       /\ (ConfirmEsc \/ ConfirmNo) =>
              /\ mode' = "List"
              /\ planned_ops' = <<>>
              /\ planned_targets' = <<>>
              /\ UNCHANGED <<groups, selected_groups, apply, fs, dirs>>]_vars

\* C13 case: a plan over a chosen, multi-selected group was declined with 'n'
C13_DeclinedPlanOfSelectedGroup ==
    /\ message = Msg("Cancelled", 0) /\ mode = "List"
    /\ planned_ops = <<>> /\ planned_targets = <<>>
    /\ selected_groups # {}
    /\ \E i \in 1..Len(groups) : IsSome(groups[i].chosen) /\ i - 1 \in selected_groups

\* C14: Enter in Pick writes the candidate under the pick cursor as the chosen
\* value of the group under the list cursor and returns to List, every other
\* group keeps its chosen value, and no step taken in Pick moves the list
\* cursor, so that group is the one Pick was entered for.
C14_CommitSetsChosenOfCursorGroup ==
    [][/\ mode = "Pick" => list_state' = list_state
       /\ pick_current =>
              /\ IsSome(list_state) /\ IsSome(pick_state)
              /\ mode' = "List"
              /\ Len(groups') = Len(groups)
              /\ groups'[Unwrap(list_state) + 1].chosen = pick_state
              /\ \A i \in 1..Len(groups) :
                    i # Unwrap(list_state) + 1 => groups'[i] = groups[i]]_vars

\* C14 case: the second group's candidate was committed from Pick while the
\* first group has no chosen value
C14_CommittedInSecondGroup ==
    /\ message = Msg("Picked", 0) /\ mode = "List"
    /\ list_state = Some(1) /\ Len(groups) = 2
    /\ groups[2].chosen = pick_state /\ IsSome(pick_state)
    /\ groups[1].chosen = None

\* C15: a quick pick taken in List over a non-empty target set (the cursor's
\* group, or the multi-select set) gives every targeted group a chosen value
\* (the original for "Current", the newest or oldest candidate when one has a
\* modification time) and puts it in the multi-select set; every other group
\* keeps its chosen value and its membership, and the mode stays List.
C15_QuickPickSetsExactlyTargets ==
    [][\A kind \in {"Current", "Newest", "Oldest"}, selected_only \in BOOLEAN :
          (pick_kind_for_targets(kind, selected_only) /\ Targets(selected_only) # {}) =>
             /\ mode = "List" /\ mode' = "List"
             /\ Len(groups') = Len(groups)
             /\ Targets(selected_only) \subseteq 0..(Len(groups) - 1)
             /\ \A i \in 1..Len(groups) :
                  IF i - 1 \in Targets(selected_only)
                    THEN /\ IsSome(groups'[i].chosen)
                         /\ groups'[i] = [groups[i] EXCEPT !.chosen = groups'[i].chosen]
                         /\ kind = "Current" => groups'[i].chosen = Some(0)
                         /\ (kind = "Newest" /\ IsSome(newest_idx(groups[i])))
                               => groups'[i].chosen = newest_idx(groups[i])
                         /\ (kind = "Oldest" /\ IsSome(oldest_idx(groups[i])))
                               => groups'[i].chosen = oldest_idx(groups[i])
                         /\ i - 1 \in selected_groups'
                    ELSE /\ groups'[i] = groups[i]
                         /\ (i - 1 \in selected_groups') = (i - 1 \in selected_groups)]_vars

\* C15 case: "oldest" was quick-picked for the second group only
C15_QuickPickedSecondGroupOnly ==
    /\ message = Msg("Picked oldest", 0) /\ mode = "List"
    /\ list_state = Some(1) /\ Len(groups) = 2
    /\ selected_groups = {1}
    /\ IsSome(groups[2].chosen) /\ groups[2].chosen = oldest_idx(groups[2])
    /\ groups[1].chosen = None

\* the positions of the candidates of g that have a modification time
TimedPositions(g) == {k \in 1..Len(g.candidates) : IsSome(g.candidates[k].modified)}

\* C16: for every group, newest_idx and oldest_idx are none exactly when no
\* candidate has a modification time; otherwise each is the index of a
\* candidate that has one, whose time is the maximum (newest_idx) or the
\* minimum (oldest_idx) of the times the candidates have.
C16_NewestOldestAreTrueExtremes ==
    \A i \in 1..Len(groups) :
       LET g == groups[i]
           timed == TimedPositions(g)
           mtime(k) == Unwrap(g.candidates[k].modified)
       IN /\ (newest_idx(g) = None) = (timed = {})
          /\ (oldest_idx(g) = None) = (timed = {})
          /\ timed # {} =>
                LET n == Unwrap(newest_idx(g)) + 1
                    o == Unwrap(oldest_idx(g)) + 1
                IN /\ n \in timed /\ o \in timed
                   /\ \A k \in timed : mtime(k) <= mtime(n) /\ mtime(o) <= mtime(k)

\* C16 case: "newest" was picked in a group whose original has no
\* modification time and whose conflict files differ in theirs
C16_NewestPickedPastUntimedOriginal ==
    \E i \in 1..Len(groups) :
       LET g == groups[i] IN
       /\ message = Msg("Picked newest", 0)
       /\ Len(g.candidates) = 3
       /\ g.candidates[1].modified = None
       /\ newest_idx(g) # oldest_idx(g)
       /\ g.chosen = newest_idx(g) /\ g.chosen = Some(2)

\* the lowest position among the candidates of g whose time equals that of k
FirstTied(g, k) ==
    CHOOSE j \in TimedPositions(g) :
       /\ g.candidates[j].modified = g.candidates[k].modified
       /\ \A l \in TimedPositions(g) :
             g.candidates[l].modified = g.candidates[k].modified => j <= l

\* C17: when several candidates share the maximum or the minimum
\* modification time, newest_idx and oldest_idx both return the lowest index
\* among the tied candidates.
C17_FirstOccurrenceWinsTies ==
    \A i \in 1..Len(groups) :
       LET g == groups[i] IN
       TimedPositions(g) # {} =>
          /\ FirstTied(g, Unwrap(newest_idx(g)) + 1) = Unwrap(newest_idx(g)) + 1
          /\ FirstTied(g, Unwrap(oldest_idx(g)) + 1) = Unwrap(oldest_idx(g)) + 1

\* C17 case: "newest" was picked where the original and a conflict file share
\* the latest modification time, and the conflict file was chosen
C17_NewestPickedLaterOfTied ==
    \E i \in 1..Len(groups) :
       LET g == groups[i] IN
       /\ message = Msg("Picked newest", 0)
       /\ g.chosen = newest_idx(g) /\ IsSome(g.chosen)
       /\ Unwrap(g.chosen) > 0
       /\ g.candidates[1].modified = g.candidates[Unwrap(g.chosen) + 1].modified

\* C18: in every group a scan produced, the first candidate is the original
\* with the group's base path (also when no file is there), no other
\* candidate is marked original, the other candidates are conflict variants
\* of the base path in ascending path order, there is at least one of them,
\* and the groups are in ascending order of base path.
C18_OriginalFirstConflictsSorted ==
    /\ \A i \in 1..Len(groups) :
          LET c == groups[i].candidates IN
          /\ Len(c) >= 2
          /\ c[1].is_original /\ c[1].path = groups[i].base_path
          /\ \A k \in 2..Len(c) :
                /\ ~c[k].is_original
                /\ IsSome(is_conflict_name(FileName(c[k].path)))
                /\ BaseOf(c[k].path) = groups[i].base_path
          /\ \A k \in 2..(Len(c) - 1) : PathLess(c[k].path, c[k + 1].path)
    /\ \A i \in 1..(Len(groups) - 1) :
          PathLess(groups[i].base_path, groups[i + 1].base_path)

\* C18 case: a group without a file at its base path whose two conflict files
\* the walk enumerated in descending path order
C18_ReverseWalkWithoutOriginal ==
    \E i \in 1..Len(groups) :
       LET c == groups[i].candidates IN
       /\ Len(c) = 3
       /\ ~Exists(fs, groups[i].base_path) /\ ~c[1].exists
       /\ c[2].label = Label("Conflict", 2) /\ c[3].label = Label("Conflict", 1)

\* C19: in every group a scan produced, the conflict candidate at position k
\* of the candidate list (the original being at position 0) carries the label
\* "Conflict k".
C19_LabelIsRankBySortedPath ==
    \A i \in 1..Len(groups) :
       \A k \in 2..Len(groups[i].candidates) :
          groups[i].candidates[k].label = Label("Conflict", k - 1)

\* C19 case: the first conflict file by path is labelled "Conflict 2" next to
\* an existing original
C19_FirstByPathLabelledSecond ==
    \E i \in 1..Len(groups) :
       LET c == groups[i].candidates IN
       /\ Len(c) = 3 /\ c[1].exists
       /\ PathLess(c[2].path, c[3].path)
       /\ c[2].label = Label("Conflict", 2)

\* the groups are the result of a scan of the present files: nothing has been
\* applied since the session started, or an apply has just rescanned
ScanIsFresh == dirs = {UserDir} \/ message = Msg("Applied", 0)

\* the conflict-variant files a scan has put into groups
GroupedConflicts ==
    UNION {{groups[i].candidates[k].path : k \in 2..Len(groups[i].candidates)} :
              i \in 1..Len(groups)}

\* p's own name or a directory between the scan root and p starts with '.'
HiddenBelowRoot(p) ==
    \/ StartsWithDot(p.name.base)
    \/ \E i \in 1..Len(p.dir) : StartsWithDot(p.dir[i])

\* C20: with include_hidden unset a scan leaves a conflict-variant file out
\* exactly when its own name or a directory between the scan root and the
\* file starts with '.'; with include_hidden set it leaves none out.
C20_HiddenMeansBelowRoot ==
    ScanIsFresh =>
       GroupedConflicts =
          {p \in DOMAIN fs :
              /\ IsSome(is_conflict_name(FileName(p)))
              /\ include_hidden \/ ~HiddenBelowRoot(p)}

\* C20 case: a session started without include_hidden on a root below a
\* hidden directory shows no group for a conflict pair in a visible directory
C20_VisiblePairUnderHiddenRootDropped ==
    /\ ~include_hidden /\ root = HiddenRoot
    /\ dirs = {UserDir} /\ groups = <<>>
    /\ \E p \in DOMAIN fs :
          /\ IsSome(is_conflict_name(FileName(p))) /\ ~HiddenBelowRoot(p)
          /\ Exists(fs, BaseOf(p))

\* the paths a move of the file at `from` can be aimed at: a file that
\* exists, a path of the user's directory, or a fresh name in the archive
MoveTargets(from) ==
    (DOMAIN fs \cup UserPaths
       \cup {MkPath(archive_dir_for(from), unique_name(FileName(from), t)) :
                t \in 1..MaxStamp}) \ {from}

\* C21: for every file present, every other destination and every I/O
\* outcome, move_file has the destination's directory created whatever
\* happens next; when the rename works the destination is the very file
\* (no copy is made); when it reports an error the source is still present
\* with its content, and a failed copy leaves every file as it was; when it
\* reports success the destination holds the source's content, the source
\* path is gone and no other file has changed.
C21_MoveDeletesOnlyAfterCopy ==
    \A from \in DOMAIN fs : \A to \in MoveTargets(from) :
       \A io \in IoKinds \cup {"none"} :
          LET r == move_file(fs, dirs, from, to, io) IN
          /\ Parent(to) \in r.dirs /\ dirs \subseteq r.dirs
          /\ io = "none" => r.ok /\ r.fs[to] = fs[from]
          /\ io = "copy" => ~r.ok /\ r.fs = fs
          /\ ~r.ok => Exists(r.fs, from) /\ r.fs[from] = fs[from]
          /\ r.ok => /\ ~Exists(r.fs, from)
                     /\ Exists(r.fs, to) /\ r.fs[to].c = fs[from].c
                     /\ \A q \in DOMAIN fs \ {from, to} :
                           Exists(r.fs, q) /\ r.fs[q] = fs[q]

\* C21 case: an apply met a move whose copy failed; the source is in place
\* and nothing is at the destination, whose directory exists
C21_CopyFailedSourceInPlace ==
    \E i \in 1..Len(oplog) :
       /\ ~oplog[i].ok /\ oplog[i].present /\ ~oplog[i].occupied
       /\ Exists(fs, oplog[i].from) /\ fs[oplog[i].from].c.at = oplog[i].from
       /\ ~Exists(fs, oplog[i].to)
       /\ Parent(oplog[i].to) \in dirs /\ Parent(oplog[i].to) # UserDir

\* C22: a step creates a directory only when it archives a candidate into
\* it: a group with nothing to archive is applied without an archive
\* directory being created.
C22_ArchiveDirOnlyWhenArchiving ==
    [][\A d \in dirs' \ dirs :
          \E i \in 1..Len(oplog') :
             oplog'[i].op = "archive" /\ Parent(oplog'[i].to) = d]_vars

\* C22 case: a group with a missing original and one chosen conflict file
\* was applied with the keeper move alone, and the archive directory exists
C22_ArchiveDirCreatedForKeeperOnly ==
    /\ message = Msg("Applied", 0)
    /\ Len(oplog) = 1 /\ oplog[1].op = "keeper" /\ oplog[1].ok
    /\ ~oplog[1].occupied
    /\ archive_dir_for(oplog[1].to) \in dirs
    /\ \A p \in DOMAIN fs : Parent(p) # archive_dir_for(oplog[1].to)

\* C23: a confirm in dry-run mode over planned targets reports every target
\* as succeeded and leaves the mode Confirm and the planned targets, the plan
\* lines, the groups with their chosen values, the multi-select set and the
\* files unchanged; toggling the apply flag in Confirm keeps the planned
\* targets and the groups; and a confirm in apply mode hands exactly the
\* planned targets to apply_group.
C23_DryRunKeepsPlanForApply ==
    [][/\ (apply_plan /\ ~apply /\ planned_targets # <<>>) =>
             /\ [k \in 1..Len(tried') |-> tried'[k].gi] = planned_targets
             /\ \A k \in 1..Len(tried') : tried'[k].ok
             /\ message' = Msg("Dry-run complete", 0)
             /\ mode' = "Confirm"
             /\ UNCHANGED <<planned_targets, planned_ops, groups, selected_groups,
                            fs, dirs, apply>>
       /\ (ToggleApply /\ mode = "Confirm") =>
             /\ apply' = ~apply /\ mode' = "Confirm"
             /\ UNCHANGED <<planned_targets, planned_ops, groups, selected_groups>>
       /\ (apply_plan /\ apply /\ planned_targets # <<>>) =>
             [k \in 1..Len(tried') |-> tried'[k].gi] = planned_targets]_vars

\* C23 case: a dry-run confirm over two planned groups has left the dialog
\* open with both targets still planned
C23_DryRunOverTwoTargets ==
    /\ ~apply /\ message = Msg("Dry-run complete", 0) /\ mode = "Confirm"
    /\ planned_targets = <<0, 1>> /\ planned_ops # <<>>
    /\ Len(tried) = 2 /\ tried[1].ok /\ tried[2].ok
    /\ \A i \in 1..Len(groups) : IsSome(groups[i].chosen)

\* C24: a confirm in which a group failed leaves the mode Confirm, the
\* planned targets empty, one error line per failed group in the plan lines
\* and their count in the message; a confirm taken with no planned targets
\* changes no file, hands no group to apply_group and returns to List.
C24_FailedBatchNotReapplied ==
    [][/\ (apply_plan /\ \E k \in 1..Len(tried') : ~tried'[k].ok) =>
             LET failed == {k \in 1..Len(tried') : ~tried'[k].ok} IN
             /\ mode' = "Confirm"
             /\ planned_targets' = <<>>
             /\ Len(planned_ops') = Cardinality(failed)
             /\ \A l \in 1..Len(planned_ops') :
                   /\ planned_ops'[l].t = "error"
                   /\ \E k \in failed :
                         planned_ops'[l].path = groups[tried'[k].gi + 1].base_path
             /\ message' = Msg("Some groups failed", Cardinality(failed))
       /\ (apply_plan /\ planned_targets = <<>>) =>
             /\ mode' = "List"
             /\ tried' = <<>> /\ oplog' = <<>>
             /\ planned_targets' = <<>>
             /\ UNCHANGED <<fs, dirs, groups>>]_vars

\* C24 case: after an apply that archived a file and failed, a further
\* confirm found nothing planned and returned to List
C24_ConfirmedAgainAfterFailure ==
    /\ message = Msg("Nothing planned", 0) /\ mode = "List"
    /\ apply /\ now = MaxStamp
    /\ tried = <<>> /\ oplog = <<>> /\ planned_targets = <<>>
    /\ \E i \in 1..Len(groups) :
          /\ IsSome(groups[i].chosen)
          /\ archive_dir_for(groups[i].base_path) \in dirs

\* C25: when a move of an apply fails, it is the last move made for its
\* group and the group is reported as failed; every candidate of that group
\* archived before it is in the archive directory after the step, with its
\* content; and a step in which a group failed leaves all groups, with
\* their chosen values, as they were.
C25_NoRollbackNoLaterStep ==
    [][\A j \in 1..Len(oplog') :
          ~oplog'[j].ok =>
             /\ \A l \in (j + 1)..Len(oplog') : oplog'[l].gi # oplog'[j].gi
             /\ \E k \in 1..Len(tried') :
                   tried'[k].gi = oplog'[j].gi /\ ~tried'[k].ok
             /\ \A i \in 1..(j - 1) :
                   (oplog'[i].gi = oplog'[j].gi /\ oplog'[i].op = "archive") =>
                      /\ oplog'[i].ok
                      /\ Parent(oplog'[i].to) = archive_dir_for(groups[oplog'[j].gi + 1].base_path)
                      /\ Exists(fs', oplog'[i].to)
                      /\ Some(fs'[oplog'[i].to].c) = oplog'[i].moved
             /\ groups' = groups
             /\ IsSome(groups'[oplog'[j].gi + 1].chosen)]_vars

\* C25 case: a group's original was archived, the keeper move then failed,
\* and the original is still in the archive with nothing at the base path
C25_ArchivedThenKeeperFailed ==
    \E i, j \in 1..Len(oplog) :
       /\ i < j /\ oplog[i].gi = oplog[j].gi
       /\ oplog[i].op = "archive" /\ oplog[i].ok
       /\ oplog[j].op = "keeper" /\ ~oplog[j].ok
       /\ oplog[i].from = groups[oplog[i].gi + 1].base_path
       /\ Exists(fs, oplog[i].to) /\ ~Exists(fs, oplog[i].from)
       /\ IsSome(groups[oplog[i].gi + 1].chosen)
       /\ message.text = "Some groups failed"

\* C26: in every reachable state the list cursor is absent exactly when
\* there are no groups and otherwise is below the number of groups, every
\* member of the multi-select set is below the number of groups, every
\* chosen value that is set is below its group's number of candidates, and
\* every planned target is the index of a group whose chosen value is set;
\* a cursor move down from the last group or up from the first leaves the
\* cursor where it is.
C26_IndicesValid ==
    /\ [](/\ (list_state = None) = (groups = <<>>)
          /\ IsSome(list_state) => Unwrap(list_state) \in 0..(Len(groups) - 1)
          /\ selected_groups \subseteq 0..(Len(groups) - 1)
          /\ \A i \in 1..Len(groups) :
                IsSome(groups[i].chosen) =>
                   Unwrap(groups[i].chosen) \in 0..(Len(groups[i].candidates) - 1)
          /\ \A k \in 1..Len(planned_targets) :
                /\ planned_targets[k] \in 0..(Len(groups) - 1)
                /\ IsSome(groups[planned_targets[k] + 1].chosen))
    /\ [][/\ (ListDown /\ list_state = Some(Len(groups) - 1)) => list_state' = list_state
          /\ (ListUp /\ list_state = Some(0)) => list_state' = list_state]_vars

\* C26 case: both groups are chosen, selected and planned, with the cursor
\* on the last group
C26_BothPlannedCursorOnLast ==
    /\ Len(groups) = 2 /\ list_state = Some(1)
    /\ selected_groups = {0, 1} /\ planned_targets = <<0, 1>>
    /\ mode = "Confirm"
    /\ groups[1].chosen = Some(1) /\ groups[2].chosen = Some(0)

\* C27: after a confirm in apply mode, in a session that met no other
\* process, no I/O fault and no failed stat call, a file exists at the base
\* path of every group the confirm reports as succeeded.
C27_SucceededGroupHasBaseFile ==
    [][(ApplyingFiles /\ ext' = 0) =>
          \A k \in 1..Len(tried') :
             tried'[k].ok => Exists(fs', groups[tried'[k].gi + 1].base_path)]_vars

\* C27 case: the absent original of a group was chosen and the group applied:
\* its conflict file is in the archive and nothing is at the base path
C27_AllVariantsArchivedNoneAtBase ==
    /\ message = Msg("Applied", 0) /\ ext = 0
    /\ Len(tried) = 1 /\ tried[1].ok
    /\ oplog # <<>>
    /\ \A i \in 1..Len(oplog) :
          /\ oplog[i].op = "archive" /\ oplog[i].ok
          /\ BaseOf(oplog[i].from) \notin DOMAIN fs
          /\ Exists(fs, oplog[i].to)
    /\ DOMAIN fs \cap UserPaths = {}

\* p lies inside an archive directory
InArchive(p) == \E i \in 1..Len(p.dir) : p.dir[i] = ArchiveDirName

\* C28: after a confirm in apply mode in which every group succeeded and
\* the rescan that ends it, in a session that met no other process, no I/O
\* fault and no failed stat call, no group has its base path or a candidate
\* inside an archive directory, and no group that was applied is in the
\* group list.
C28_ArchiveKeptOutOfScans ==
    [][(ApplyingFiles /\ ext' = 0 /\ message' = Msg("Applied", 0)) =>
          /\ \A i \in 1..Len(groups') :
                /\ ~InArchive(groups'[i].base_path)
                /\ \A k \in 1..Len(groups'[i].candidates) :
                      ~InArchive(groups'[i].candidates[k].path)
          /\ \A k \in 1..Len(tried') : \A i \in 1..Len(groups') :
                groups'[i].base_path # groups[tried'[k].gi + 1].base_path]_vars

\* C28 case: with include_hidden set, the rescan after an apply lists the
\* archived conflict file as a group of its own inside the archive
C28_ArchivedFileListedAsGroup ==
    /\ include_hidden /\ message = Msg("Applied", 0) /\ ext = 0
    /\ \E i \in 1..Len(groups), j \in 1..Len(oplog) :
          /\ oplog[j].op = "archive" /\ oplog[j].ok
          /\ groups[i].base_path.dir = archive_dir_for(oplog[j].from)
          /\ groups[i].candidates[2].path = oplog[j].to

\* C29: no two archive moves of one confirm have the same destination, also
\* when the clock returns the same value for both of them.
C29_ArchiveDestinationsDistinct ==
    [][\A i, j \in 1..Len(oplog') :
          (i # j /\ oplog'[i].op = "archive" /\ oplog'[j].op = "archive") =>
             /\ oplog'[i].from # oplog'[j].from
             /\ oplog'[i].to # oplog'[j].to]_vars

\* C29 case: one confirm archived two files of the same directory under the
\* same clock value, and both are in the archive
C29_TwoArchivedInSameMillisecond ==
    \E i, j \in 1..Len(oplog) :
       /\ i < j
       /\ oplog[i].op = "archive" /\ oplog[i].ok
       /\ oplog[j].op = "archive" /\ oplog[j].ok
       /\ Parent(oplog[i].to) = Parent(oplog[j].to)
       /\ oplog[i].to.name.stamps = oplog[j].to.name.stamps
       /\ Exists(fs, oplog[i].to) /\ Exists(fs, oplog[j].to)
       /\ fs[oplog[i].to].c # fs[oplog[j].to].c

====
